---------------------------- MODULE Spec2Model ----------------------------
(***************************************************************************)
(* bigfilereader (src/main.go): a parallel line scanner over byte ranges   *)
(* of a file (scanFile / scanFilePart), a loader that stores one           *)
(* association row per (identifier, label) in a hash-partitioned ordered   *)
(* store fed by one bounded channel and one goroutine per partition        *)
(* (pebbleDB), and a prefix-scan query (FindLabelsByMobile).               *)
(*                                                                         *)
(* Texts, keys and values are sequences of bytes (0..255).  Identifiers    *)
(* keep their 64-bit width: a uint64 is its 8 little-endian bytes and the  *)
(* decimal parser works on those bytes.                                    *)
(***************************************************************************)
EXTENDS Integers, Sequences, FiniteSets, Bags, TLC

(***************************************************************************)
(* Bounds of the model.                                                    *)
(***************************************************************************)
\* the longest file of the exhaustive file set
MaxFileLen == 4
\* runtime.NumCPU() ranges over 1..MaxWorkers
MaxWorkers == 3
\* the partition count (var Partitions, 10 unless PARTITIONS is set)
Partitions == 2
\* the capacity of a partition's channel (make(chan op, 10000) in the code)
QueueCap == 2
\* the number of Append/Set calls the producers of the store make in all
MaxOps == 3

(***************************************************************************)
(* Bytes.                                                                  *)
(***************************************************************************)
\* '\n', the line terminator
LF == 10
\* ',', the separator of opAppend
COMMA == 44

\* IsSpace: ' ', '\t', '\r', '\v', '\f', '\n'
IsSpace(b) == b \in {32, 9, 13, 11, 12, LF}

\* strings.TrimSpace on ASCII text: drops the leading and trailing white space
RECURSIVE TrimLeft(_)
TrimLeft(s) ==
  IF s # <<>> /\ IsSpace(Head(s)) THEN TrimLeft(Tail(s)) ELSE s

RECURSIVE TrimRight(_)
TrimRight(s) ==
  IF s # <<>> /\ IsSpace(s[Len(s)]) THEN TrimRight(SubSeq(s, 1, Len(s) - 1)) ELSE s

TrimSpace(s) == TrimRight(TrimLeft(s))

(***************************************************************************)
(* KeyCodec: mobile2bytes = strconv.ParseUint(s, 10, 64) followed by       *)
(* binary.LittleEndian.PutUint64.  The accumulator is the 8 little-endian  *)
(* bytes of the uint64; n*10+d is done byte by byte with a carry, and a    *)
(* carry out of the eighth byte is ParseUint's range error.                *)
(***************************************************************************)
Zero8 == <<0, 0, 0, 0, 0, 0, 0, 0>>

RECURSIVE MulAdd(_, _, _)
\* bytes of (acc * 10 + carry) from byte k on, followed by the carry out
MulAdd(acc, carry, k) ==
  IF k > 8 THEN <<carry>>
  ELSE LET v == acc[k] * 10 + carry
       IN  <<v % 256>> \o MulAdd(acc, v \div 256, k + 1)

RECURSIVE ParseDigits(_, _)
\* [ok, bytes]: the digits of s folded into acc; not ok on a byte that is no
\* decimal digit and on a value above 2^64 - 1
ParseDigits(s, acc) ==
  IF s = <<>> THEN [ok |-> TRUE, bytes |-> acc]
  ELSE IF Head(s) < 48 \/ Head(s) > 57 THEN [ok |-> FALSE, bytes |-> Zero8]
  ELSE LET r == MulAdd(acc, Head(s) - 48, 1)
       IN  IF r[9] # 0 THEN [ok |-> FALSE, bytes |-> Zero8]
           ELSE ParseDigits(Tail(s), SubSeq(r, 1, 8))

\* a variable-width encoding: the little-endian bytes without the high zero bytes
RECURSIVE DropHighZeros(_)
DropHighZeros(b) ==
  IF Len(b) > 1 /\ b[Len(b)] = 0 THEN DropHighZeros(SubSeq(b, 1, Len(b) - 1)) ELSE b

mobile2bytesVarWidth(s) ==
  IF s = <<>> THEN [ok |-> FALSE, bytes |-> Zero8]
  ELSE LET r == ParseDigits(s, Zero8)
       IN  [ok |-> r.ok, bytes |-> IF r.ok THEN DropHighZeros(r.bytes) ELSE r.bytes]

\* mobile2bytes: [ok |-> FALSE] is the error of ParseUint (syntax or range)
mobile2bytes(s) ==
  IF s = <<>> THEN [ok |-> FALSE, bytes |-> Zero8] ELSE ParseDigits(s, Zero8)

(***************************************************************************)
(* PartitionRouter.  xxhash (an external library) is a fixed function of   *)
(* the bytes; a position-weighted byte sum stands for it.                  *)
(***************************************************************************)
RECURSIVE WeightedSum(_, _)
WeightedSum(data, k) ==
  IF k > Len(data) THEN 0 ELSE (data[k] * k + WeightedSum(data, k + 1)) % 65536

Hash(data) == WeightedSum(data, 1)

Partition(partitionKey) == Hash(partitionKey) % Partitions

PIDs == 0 .. (Partitions - 1)

(***************************************************************************)
(* The ordered engine of one partition (pebble, an external library): a    *)
(* function from the keys present to their values, iterated in the order   *)
(* of bytes.Compare.                                                       *)
(***************************************************************************)
RECURSIVE Less(_, _)
\* bytes.Compare(a, b) < 0
Less(a, b) ==
  IF b = <<>> THEN FALSE
  ELSE IF a = <<>> THEN TRUE
  ELSE IF Head(a) # Head(b) THEN Head(a) < Head(b)
  ELSE Less(Tail(a), Tail(b))

RECURSIVE SortKeys(_)
\* the keys of S in ascending byte order
SortKeys(S) ==
  IF S = {} THEN <<>>
  ELSE LET m == CHOOSE k \in S : \A o \in S : o = k \/ Less(k, o)
       IN  <<m>> \o SortKeys(S \ {m})

\* db.Get: the value of key, empty when the key is not found
EngineGet(db, key) == IF key \in DOMAIN db THEN db[key] ELSE <<>>

\* db.Set: unconditional overwrite
EngineSet(db, key, value) == (key :> value) @@ db

RECURSIVE keyUpperBoundFrom(_, _)
\* the loop of keyUpperBound from index i (1-based) down: end[i] += 1 wraps
\* at 256; the first byte that does not wrap ends the bound there
keyUpperBoundFrom(end, i) ==
  IF i < 1 THEN [bounded |-> FALSE, key |-> <<>>]
  ELSE LET e == [end EXCEPT ![i] = (@ + 1) % 256]
       IN  IF e[i] # 0 THEN [bounded |-> TRUE, key |-> SubSeq(e, 1, i)]
           ELSE keyUpperBoundFrom(e, i - 1)

\* a bound that forgets the carry: only the last byte is incremented
keyUpperBoundNoCarry(b) ==
  IF b = <<>> THEN [bounded |-> FALSE, key |-> <<>>]
  ELSE [bounded |-> TRUE, key |-> [b EXCEPT ![Len(b)] = (@ + 1) % 256]]

\* keyUpperBound: not bounded is the nil of the code (no upper bound)
keyUpperBound(b) == keyUpperBoundFrom(b, Len(b))

\* an iterator with the LowerBound only
IterKeysNoUpper(db, prefix) == SortKeys({k \in DOMAIN db : ~Less(k, prefix)})

\* the keys an iterator with LowerBound prefix, UpperBound keyUpperBound(prefix)
\* visits, in order
IterKeys(db, prefix) ==
  LET ub == keyUpperBound(prefix)
  IN  SortKeys({k \in DOMAIN db :
                  /\ ~Less(k, prefix)
                  /\ (ub.bounded => Less(k, ub.key))})

\* the body of FindLabelsByMobile on the engine db: key[len(mobile):] of
\* every key the iterator visits
ScanLabels(db, mobile) ==
  LET ks == IterKeys(db, mobile)
  IN  [j \in 1 .. Len(ks) |-> SubSeq(ks[j], Len(mobile) + 1, Len(ks[j]))]

\* the operations of the partition goroutine on one op
ApplyOp(db, k) ==
  IF k.typ = "opSet" THEN EngineSet(db, k.key, k.value)
  ELSE LET v == EngineGet(db, k.key)
           value == IF Len(v) > 0 THEN k.value \o <<COMMA>> \o v ELSE k.value
       IN  EngineSet(db, k.key, value)

(***************************************************************************)
(* State.                                                                  *)
(***************************************************************************)
VARIABLES
  \* the request of LoadFile: the file's bytes, runtime.NumCPU(), ?sync, ?noop,
  \* the label
  file, numWorkers, syncMode, noop, label,
  \* scanFile: where it stands, its loop index i, the Chop of every range, the
  \* line buffer of the stitch loop
  pc, idx, chops, stitchLine,
  \* scanFilePart of every range: st (new, run, done), total, line,
  \* lineStarted, and lines, its count of the lines it passed to the callback
  parts,
  \* LoadFile: the counter lines, the lines lineCallback was called with (a
  \* bag), how the request ended (running, ok, err, fatal) and the line count
  \* of the response
  lines, delivered, outcome, reported,
  \* pebbleDB: the channel and the engine of every partition, whether the
  \* channel is closed, whether its goroutine has returned, whether the engine
  \* is open
  dbc, dbs, chClosed, workerDone, dbOpen,
  \* the process: serving, closing (in Close), closed (Close returned), exited
  \* (os.Exit in log.Fatal), and Close's position
  proc, closePc,
  \* Close: what db.Close() of every engine returned (none while not called,
  \* ok, err) and the error Close accumulates: the partitions whose errors
  \* multierr.Append has joined
  closeErr, closeRet,
  \* history: the I/O call that has failed (none, stat, open, seek, read,
  \* engine)
  ioErr,
  \* history: a send on a closed channel has panicked
  panicked,
  \* history: the ops sent on every channel, in the order of the sends, and
  \* the ops every goroutine applied, in the order it applied them
  enqLog, appLog,
  \* the producers of the store: the calls made so far, and the script of the
  \* producer that calls Set and then Append on one key
  nOps, pairPc, pair,
  \* history: the loads that returned before the one of the load machine
  \* (n of them; the outcome of the last, the ops sent when it returned)
  prior,
  \* the last prefix scan: its prefix, the keys the iterator visited, the
  \* labels returned, and the keys the engine held
  query

scanVars == <<file, numWorkers, syncMode, noop, label, pc, idx, chops,
              stitchLine, parts, lines, delivered, outcome, reported>>
storeVars == <<dbc, dbs, chClosed, workerDone, dbOpen, enqLog, appLog>>
closeVars == <<closePc, closeErr, closeRet>>
procVars == <<proc, closeVars, ioErr, panicked>>
histVars == <<prior, query>>
prodVars == <<nOps, pairPc, pair, histVars>>
vars == <<scanVars, storeVars, procVars, prodVars>>

\* an op of a channel: typ, key and value as in the code, and src, which is
\* history: the call that sent it
op(typ, key, value, src) == [typ |-> typ, key |-> key, value |-> value, src |-> src]

NoPair == [key |-> <<>>, v1 |-> <<>>, v2 |-> <<>>]

NoPrior == [n |-> 0, outcome |-> "none", sent |-> <<>>]

NoQuery == [prefix |-> <<>>, found |-> <<>>, labels |-> <<>>, present |-> {}]

(***************************************************************************)
(* pebbleDB.Open: every partition has an open engine, an empty channel and *)
(* one goroutine ranging over the channel.                                 *)
(***************************************************************************)
Open ==
  /\ dbc = [p \in PIDs |-> <<>>]
  /\ dbs = [p \in PIDs |-> <<>>]
  /\ chClosed = [p \in PIDs |-> FALSE]
  /\ workerDone = [p \in PIDs |-> FALSE]
  /\ dbOpen = [p \in PIDs |-> TRUE]
  /\ enqLog = [p \in PIDs |-> <<>>]
  /\ appLog = [p \in PIDs |-> <<>>]
  /\ proc = "serving"
  /\ closePc = 0
  /\ closeErr = [p \in PIDs |-> "none"]
  /\ closeRet = <<>>
  /\ ioErr = "none"
  /\ panicked = FALSE

\* a channel without a capacity: a send always completes
CanSendUnbounded(p) == Len(dbc[p]) >= 0

\* a send on the channel of partition p completes: there is room (a sender
\* blocks while the channel is full)
CanSend(p) == Len(dbc[p]) < QueueCap

Send(p, o) ==
  /\ dbc' = [dbc EXCEPT ![p] = Append(@, o)]
  /\ enqLog' = [enqLog EXCEPT ![p] = Append(@, o)]

\* the op sent last
NextLast(q) == q[Len(q)]

\* the op `range c` receives next: the one sent first
NextOp(q) == Head(q)

\* the channel after the receive
RestOps(q) == Tail(q)

\* a goroutine that receives one op, applies it and returns
WorkerApplyOnce(p) ==
  /\ proc # "exited"
  /\ ~workerDone[p]
  /\ dbc[p] # <<>>
  /\ appLog[p] = <<>>
  /\ LET k == NextOp(dbc[p])
     IN  /\ dbs' = [dbs EXCEPT ![p] = ApplyOp(@, k)]
         /\ appLog' = [appLog EXCEPT ![p] = Append(@, k)]
  /\ dbc' = [dbc EXCEPT ![p] = RestOps(@)]
  /\ UNCHANGED <<chClosed, workerDone, dbOpen, enqLog>>
  /\ UNCHANGED <<scanVars, procVars, prodVars>>

\* one iteration of `for k := range c` in the goroutine of partition p
WorkerApply(p) ==
  /\ proc # "exited"
  /\ ~workerDone[p]
  /\ dbc[p] # <<>>
  /\ LET k == NextOp(dbc[p])
     IN  /\ dbs' = [dbs EXCEPT ![p] = ApplyOp(@, k)]
         /\ appLog' = [appLog EXCEPT ![p] = Append(@, k)]
  /\ dbc' = [dbc EXCEPT ![p] = RestOps(@)]
  /\ UNCHANGED <<chClosed, workerDone, dbOpen, enqLog>>
  /\ UNCHANGED <<scanVars, procVars, prodVars>>

\* an Append that writes value into the row key itself
pebbleDBAppendSameRow(key, value, src) ==
  Send(Partition(key), op("opSet", key, value, src))

\* an Append routed by the row it writes, key ++ value
pebbleDBAppendByRow(key, value, src) ==
  Send(Partition(key \o value), op("opSet", key \o value, <<>>, src))

\* an Append of the layout with one row per key: an opAppend of the row key
pebbleDBAppendJoin(key, value, src) ==
  Send(Partition(key), op("opAppend", key, value, src))

\* pebbleDB.Append(key, value): an opSet of the row key ++ value with an
\* empty value, sent to the partition of key
pebbleDBAppend(key, value, src) ==
  Send(Partition(key), op("opSet", key \o value, <<>>, src))

\* pebbleDB.Set(key, value)
pebbleDBSet(key, value, src) ==
  Send(Partition(key), op("opSet", key, value, src))

\* FindLabelsByMobile: the partition of mobile, scanned for the prefix mobile
FindLabelsByMobile(mobile) == ScanLabels(dbs[Partition(mobile)], mobile)

\* GetLabel: the labels of the response; not ok is the error of mobile2bytes,
\* and the failure of an iterator on an engine that Close has closed
GetLabel(text) ==
  LET m == mobile2bytes(text)
  IN  IF m.ok /\ dbOpen[Partition(m.bytes)]
        THEN [ok |-> TRUE, labels |-> FindLabelsByMobile(m.bytes)]
        ELSE [ok |-> FALSE, labels |-> <<>>]

(***************************************************************************)
(* LoadFile and scanFile.                                                  *)
(***************************************************************************)
\* the bytes of the exhaustive files: '\n', ' ', '1', 'x'
Alphabet == {LF, 32, 49, 120}

\* "18446744073709551615" (2^64 - 1) and "18446744073709551616" (2^64)
MaxIdText ==
  <<49, 56, 52, 52, 54, 55, 52, 52, 48, 55, 51, 55, 48, 57, 53, 53, 49, 54, 49, 53>>

OverflowText ==
  <<49, 56, 52, 52, 54, 55, 52, 52, 48, 55, 51, 55, 48, 57, 53, 53, 49, 54, 49, 54>>

\* longer files, with whole lines inside the ranges of two and three workers:
\* "\n1 1\n", "\n1\n\n1\n", " 1\n1\n1 ", "1\n1 1\nx1", and "\n1\n11\n1\nx" (with
\* two workers: a whole line in each range, a line across the boundary,
\* and a last byte in no range)
LongFiles ==
  {<<LF, 49, 32, 49, LF>>,
   <<LF, 49, LF, LF, 49, LF>>,
   <<32, 49, LF, 49, LF, 49, 32>>,
   <<49, LF, 49, 32, 49, LF, 120, 49>>,
   <<LF, 49, LF, 49, 49, LF, 49, LF, 120>>}

\* every file of at most MaxFileLen bytes over Alphabet, two files of one
\* 20-digit line, and the longer files
Files ==
  UNION {[1 .. n -> Alphabet] : n \in 0 .. MaxFileLen}
    \cup {MaxIdText \o <<LF>>, OverflowText \o <<LF>>}
    \cup LongFiles

\* the labels of the load requests: "A"
LoadLabels == {<<65>>}

\* a Chop that starts as if its range had held a line break
ChopLinebreakSet == [head |-> <<>>, tail |-> <<>>, linebreak |-> TRUE]

Chop == [head |-> <<>>, tail |-> <<>>, linebreak |-> FALSE]

WIDs == 0 .. (numWorkers - 1)

fileSize == Len(file)

\* workerSize := fileSize / numWorkers
WorkerSizeOf(size, n) == size \div n

\* start := i * workerSize
StartOf(size, n, i) == i * WorkerSizeOf(size, n)

\* end := start + workerSize; if end > fileSize { end = fileSize }
EndOf(size, n, i) ==
  IF StartOf(size, n, i) + WorkerSizeOf(size, n) > size THEN size
  ELSE StartOf(size, n, i) + WorkerSizeOf(size, n)

RangeStart(i) == StartOf(fileSize, numWorkers, i)

RangeEnd(i) == EndOf(fileSize, numWorkers, i)

countBytes(i) == RangeEnd(i) - RangeStart(i)

\* a byte loop that calls lineCallback at every terminator
ByteStepEveryLine(line, lineStarted, b) ==
  [call |-> b = LF,
   linebreak |-> b = LF,
   toHead |-> ~IsSpace(b) /\ ~lineStarted,
   toLine |-> ~IsSpace(b) /\ lineStarted]

\* what the body of `for _, b := range bb` does with byte b: whether it calls
\* lineCallback, sets chop.linebreak and lineStarted, appends b to chop.head
\* or to line
ByteStep(line, lineStarted, b) ==
  [call |-> b = LF /\ Len(line) > 0,
   linebreak |-> b = LF,
   toHead |-> ~IsSpace(b) /\ ~lineStarted,
   toLine |-> ~IsSpace(b) /\ lineStarted]

Init ==
  /\ file \in Files
  /\ numWorkers \in 1 .. MaxWorkers
  /\ syncMode \in BOOLEAN
  /\ noop \in BOOLEAN
  /\ label \in LoadLabels
  /\ pc = "loop"
  /\ idx = 0
  /\ chops = [i \in WIDs |-> Chop]
  /\ stitchLine = <<>>
  /\ parts = [i \in WIDs |->
                [st |-> "new", total |-> 0, line |-> <<>>, lineStarted |-> FALSE,
                 lines |-> 0]]
  /\ lines = 0
  /\ delivered = EmptyBag
  /\ outcome = "running"
  /\ reported = 0
  /\ Open
  /\ nOps = 0
  /\ pairPc = 0
  /\ pair = NoPair
  /\ prior = NoPrior
  /\ query = NoQuery

\* the closure LoadFile passes to scanFile: whether it returns an error
CbErr(line) == ~noop /\ ~mobile2bytes(line).ok

\* whether the closure can run to its end: its send, if any, finds room
CbCanRun(line) ==
  LET mobile == mobile2bytes(line)
  IN  noop \/ ~mobile.ok \/ CanSend(Partition(mobile.bytes))

\* the closure: lines.Add(1), then unless noop mobile2bytes and s.Append
lineCallback(line) ==
  /\ lines' = lines + 1
  /\ delivered' = delivered (+) SetToBag({line})
  /\ LET mobile == mobile2bytes(line)
     IN  IF ~noop /\ mobile.ok
           THEN pebbleDBAppend(mobile.bytes, label, <<line, label>>)
           ELSE UNCHANGED <<dbc, enqLog>>

\* scanFile's first loop: range idx gets its Chop and its scanFilePart, as a
\* goroutine, or as a call that the next iteration follows
ScanFileLoop ==
  /\ proc = "serving" /\ outcome = "running"
  /\ pc = "loop" /\ idx < numWorkers
  /\ IF syncMode /\ idx > 0 THEN parts[idx - 1].st = "done" ELSE TRUE
  /\ parts' = [parts EXCEPT ![idx].st = "run"]
  /\ idx' = idx + 1
  /\ UNCHANGED <<file, numWorkers, syncMode, noop, label, pc, chops, stitchLine,
                 lines, delivered, outcome, reported>>
  /\ UNCHANGED <<storeVars, procVars, prodVars>>

\* scanFilePart of range i on its next byte
ScanByte(i) ==
  /\ proc = "serving" /\ outcome = "running"
  /\ parts[i].st = "run"
  /\ parts[i].total < countBytes(i)
  /\ LET pt == parts[i]
         b == file[RangeStart(i) + pt.total + 1]
         step == ByteStep(pt.line, pt.lineStarted, b)
         l == TrimSpace(pt.line)
     IN  /\ chops' = [chops EXCEPT
                        ![i].linebreak = @ \/ step.linebreak,
                        ![i].head = IF step.toHead THEN Append(@, b) ELSE @]
         /\ IF step.call
              THEN /\ CbCanRun(l)
                   /\ lineCallback(l)
              ELSE UNCHANGED <<lines, delivered, dbc, enqLog>>
         /\ IF step.call /\ CbErr(l)
              THEN \* return err: log.Fatal in the goroutine, the return of
                   \* scanFile and of LoadFile under sync
                   /\ parts' = [parts EXCEPT ![i].st = "done", ![i].lines = @ + 1]
                   /\ outcome' = IF syncMode THEN "err" ELSE "fatal"
                   /\ proc' = IF syncMode THEN proc ELSE "exited"
                   /\ pc' = IF syncMode THEN "returned" ELSE pc
              ELSE /\ parts' = [parts EXCEPT
                                  ![i].total = @ + 1,
                                  ![i].lineStarted = @ \/ step.linebreak,
                                  ![i].lines = IF step.call THEN @ + 1 ELSE @,
                                  ![i].line = IF step.call THEN <<>>
                                              ELSE IF step.toLine THEN Append(@, b)
                                              ELSE @]
                   /\ UNCHANGED <<outcome, proc, pc>>
  /\ UNCHANGED <<file, numWorkers, syncMode, noop, label, idx, stitchLine, reported>>
  /\ UNCHANGED <<dbs, chClosed, workerDone, dbOpen, appLog, closeVars, ioErr, panicked, prodVars>>

\* scanFilePart of range i after its last byte: the tail, and wg.Done
ScanPartEnd(i) ==
  /\ proc = "serving" /\ outcome = "running"
  /\ parts[i].st = "run"
  /\ parts[i].total >= countBytes(i)
  /\ chops' = [chops EXCEPT ![i].tail = @ \o parts[i].line]
  /\ parts' = [parts EXCEPT ![i].st = "done"]
  /\ UNCHANGED <<file, numWorkers, syncMode, noop, label, pc, idx, stitchLine,
                 lines, delivered, outcome, reported>>
  /\ UNCHANGED <<storeVars, procVars, prodVars>>

\* a scanFile that goes on to its second loop without wg.Wait()
WaitNoJoin ==
  /\ proc = "serving" /\ outcome = "running"
  /\ pc = "loop" /\ idx = numWorkers
  /\ pc' = "stitch"
  /\ idx' = 0
  /\ UNCHANGED <<file, numWorkers, syncMode, noop, label, chops, stitchLine, parts,
                 lines, delivered, outcome, reported>>
  /\ UNCHANGED <<storeVars, procVars, prodVars>>

\* wg.Wait() after the first loop
Wait ==
  /\ proc = "serving" /\ outcome = "running"
  /\ pc = "loop" /\ idx = numWorkers
  /\ \A i \in WIDs : parts[i].st = "done"
  /\ pc' = "stitch"
  /\ idx' = 0
  /\ UNCHANGED <<file, numWorkers, syncMode, noop, label, chops, stitchLine, parts,
                 lines, delivered, outcome, reported>>
  /\ UNCHANGED <<storeVars, procVars, prodVars>>

\* one iteration of scanFile's second loop, on the Chop of range idx
Stitch ==
  /\ proc = "serving" /\ outcome = "running"
  /\ pc = "stitch" /\ idx < numWorkers
  /\ LET chop == chops[idx]
         l == stitchLine \o chop.head
     IN  IF chop.linebreak /\ Len(l) > 0
           THEN /\ CbCanRun(l)
                /\ lineCallback(l)
                /\ IF CbErr(l)
                     THEN /\ outcome' = "err"
                          /\ pc' = "returned"
                          /\ UNCHANGED <<idx, stitchLine>>
                     ELSE /\ stitchLine' = chop.tail
                          /\ idx' = idx + 1
                          /\ UNCHANGED <<outcome, pc>>
           ELSE /\ stitchLine' = l \o chop.tail
                /\ idx' = idx + 1
                /\ UNCHANGED <<lines, delivered, dbc, enqLog, outcome, pc>>
  /\ UNCHANGED <<file, numWorkers, syncMode, noop, label, chops, parts, reported>>
  /\ UNCHANGED <<dbs, chClosed, workerDone, dbOpen, appLog, procVars, prodVars>>

\* after the second loop: the line left over, scanFile's return, and the
\* response of LoadFile with lines.Load()
StitchLast ==
  /\ proc = "serving" /\ outcome = "running"
  /\ pc = "stitch" /\ idx = numWorkers
  /\ IF Len(stitchLine) > 0
       THEN /\ CbCanRun(stitchLine)
            /\ lineCallback(stitchLine)
            /\ outcome' = IF CbErr(stitchLine) THEN "err" ELSE "ok"
            /\ reported' = IF CbErr(stitchLine) THEN reported ELSE lines + 1
       ELSE /\ outcome' = "ok"
            /\ reported' = lines
            /\ UNCHANGED <<lines, delivered, dbc, enqLog>>
  /\ pc' = "returned"
  /\ UNCHANGED <<file, numWorkers, syncMode, noop, label, idx, chops, stitchLine,
                 parts>>
  /\ UNCHANGED <<dbs, chClosed, workerDone, dbOpen, appLog, procVars, prodVars>>

\* scanFile: os.Stat(file) fails and its error is returned, before any range
\* is started
StatFail ==
  /\ proc = "serving" /\ outcome = "running"
  /\ pc = "loop" /\ idx = 0
  /\ ioErr' = "stat"
  /\ outcome' = "err"
  /\ pc' = "returned"
  /\ UNCHANGED <<file, numWorkers, syncMode, noop, label, idx, chops, stitchLine,
                 parts, lines, delivered, reported>>
  /\ UNCHANGED <<storeVars, proc, closeVars, panicked, prodVars>>

\* the I/O calls of scanFilePart of range i that can fail where it stands:
\* os.OpenFile, then f.Seek when start > 0, then every f.Read
PartIOCalls(i) ==
  (IF parts[i].total = 0 THEN {"open"} ELSE {})
    \cup (IF parts[i].total = 0 /\ RangeStart(i) > 0 THEN {"seek"} ELSE {})
    \cup (IF parts[i].total < countBytes(i) THEN {"read"} ELSE {})

\* scanFilePart of range i: the I/O call io fails (read: with an error other
\* than io.EOF); log.Fatal(err) exits the process
ScanPartIOFail(i, io) ==
  /\ proc = "serving" /\ outcome = "running"
  /\ parts[i].st = "run"
  /\ io \in PartIOCalls(i)
  /\ ioErr' = io
  /\ outcome' = "fatal"
  /\ proc' = "exited"
  /\ UNCHANGED <<file, numWorkers, syncMode, noop, label, pc, idx, chops,
                 stitchLine, parts, lines, delivered, reported>>
  /\ UNCHANGED <<storeVars, closeVars, panicked, prodVars>>

\* the goroutine of partition p receives an op and db.Set (or db.Get) returns
\* an error: log.Fatal(err) exits the process, and a load in progress with it
EngineWriteFail(p) ==
  /\ proc # "exited"
  /\ ~workerDone[p]
  /\ dbc[p] # <<>>
  /\ dbc' = [dbc EXCEPT ![p] = RestOps(@)]
  /\ ioErr' = "engine"
  /\ outcome' = IF outcome = "running" THEN "fatal" ELSE outcome
  /\ proc' = "exited"
  /\ UNCHANGED <<file, numWorkers, syncMode, noop, label, pc, idx, chops,
                 stitchLine, parts, lines, delivered, reported>>
  /\ UNCHANGED <<dbs, chClosed, workerDone, dbOpen, enqLog, appLog, closeVars, panicked, prodVars>>

Next ==
  \/ StatFail
  \/ \E i \in WIDs, io \in {"open", "seek", "read"} : ScanPartIOFail(i, io)
  \/ \E p \in PIDs : EngineWriteFail(p)
  \/ ScanFileLoop
  \/ \E i \in WIDs : ScanByte(i)
  \/ \E i \in WIDs : ScanPartEnd(i)
  \/ Wait
  \/ Stitch
  \/ StitchLast
  \/ \E p \in PIDs : WorkerApply(p)

Spec == Init /\ [][Next]_vars

(***************************************************************************)
(* scanFile as a function of the file and the worker count, for a callback *)
(* that never fails: the same byte step and the same stitch loop, run to   *)
(* the end.  The lines come out as a bag: the order of the calls across    *)
(* goroutines is not fixed.                                                *)
(***************************************************************************)
RECURSIVE BagOfSeq(_)
BagOfSeq(q) == IF q = <<>> THEN EmptyBag ELSE SetToBag({Head(q)}) (+) BagOfSeq(Tail(q))

RECURSIVE PartFold(_, _, _, _)
\* scanFilePart from byte pos (0-based) to end: st holds head, line,
\* lineStarted, linebreak and the lines passed to the callback so far
PartFold(f, pos, end, st) ==
  IF pos >= end
    THEN [head |-> st.head, tail |-> st.line, linebreak |-> st.linebreak,
          out |-> st.out]
    ELSE LET b == f[pos + 1]
             step == ByteStep(st.line, st.lineStarted, b)
         IN  PartFold(f, pos + 1, end,
               [head |-> IF step.toHead THEN Append(st.head, b) ELSE st.head,
                line |-> IF step.call THEN <<>>
                         ELSE IF step.toLine THEN Append(st.line, b)
                         ELSE st.line,
                lineStarted |-> st.lineStarted \/ step.linebreak,
                linebreak |-> st.linebreak \/ step.linebreak,
                out |-> IF step.call THEN Append(st.out, TrimSpace(st.line))
                        ELSE st.out])

scanFilePartOf(f, start, end) ==
  PartFold(f, start, end,
    [head |-> <<>>, line |-> <<>>, lineStarted |-> FALSE, linebreak |-> FALSE,
     out |-> <<>>])

RECURSIVE StitchFold(_, _, _, _, _)
\* scanFile's second loop from range i on, and the line left over after it
StitchFold(f, n, i, line, out) ==
  IF i >= n
    THEN IF Len(line) > 0 THEN Append(out, line) ELSE out
    ELSE LET c == scanFilePartOf(f, StartOf(Len(f), n, i), EndOf(Len(f), n, i))
             l == line \o c.head
         IN  IF c.linebreak /\ Len(l) > 0
               THEN StitchFold(f, n, i + 1, c.tail, Append(out, l))
               ELSE StitchFold(f, n, i + 1, l \o c.tail, out)

RECURSIVE PartLines(_, _, _)
\* the lines the scanFilePart calls of ranges i .. n-1 pass to the callback
PartLines(f, n, i) ==
  IF i >= n THEN <<>>
  ELSE scanFilePartOf(f, StartOf(Len(f), n, i), EndOf(Len(f), n, i)).out
         \o PartLines(f, n, i + 1)

\* every line scanFile passes to the callback, with n workers
scanFileLines(f, n) == BagOfSeq(PartLines(f, n, 0) \o StitchFold(f, n, 0, <<>>, <<>>))

(***************************************************************************)
(* The lines of a file, read off its bytes.                                *)
(***************************************************************************)
RECURSIVE SplitLF(_, _)
\* the segments between terminators, the one after the last terminator too
SplitLF(f, cur) ==
  IF f = <<>> THEN <<cur>>
  ELSE IF Head(f) = LF THEN <<cur>> \o SplitLF(Tail(f), <<>>)
  ELSE SplitLF(Tail(f), Append(cur, Head(f)))

NonEmpty(s) == s # <<>>

\* the non-empty trimmed lines of f
TrimmedLines(f) ==
  LET segs == SplitLF(f, <<>>)
  IN  SelectSeq([j \in 1 .. Len(segs) |-> TrimSpace(segs[j])], NonEmpty)

NotSpace(b) == ~IsSpace(b)

\* a line without its white space bytes
Squeeze(s) == SelectSeq(s, NotSpace)

\* the non-empty lines of f, every one without its white space bytes
SqueezedLines(f) ==
  LET ls == TrimmedLines(f)
  IN  [j \in 1 .. Len(ls) |-> Squeeze(ls[j])]

ValidId(s) == mobile2bytes(s).ok

\* every queue is empty: the writes sent so far are applied
Drained == \A p \in PIDs : dbc[p] = <<>>

(***************************************************************************)
(* C1 (fails on the code).  When a load ends with the response, the lines  *)
(* the callback was called with are exactly the non-empty lines of the     *)
(* file, each once; lines are compared without their white space bytes.    *)
(***************************************************************************)
C1_EveryLineExactlyOnce ==
  outcome = "ok" => delivered = BagOfSeq(SqueezedLines(file))

(***************************************************************************)
(* C2 (fails on the code).  A load of a file of K non-empty trimmed lines, *)
(* all of them identifiers, reports K lines, and once its writes are       *)
(* applied every identifier has the label.                                 *)
(***************************************************************************)
C2_LoadComplete ==
  LET ls == TrimmedLines(file)
  IN  (outcome = "ok" /\ \A j \in 1 .. Len(ls) : ValidId(ls[j]))
        => /\ reported = Len(ls)
           /\ (~noop /\ Drained) =>
                \A j \in 1 .. Len(ls) :
                  \E k \in 1 .. Len(GetLabel(ls[j]).labels) :
                    GetLabel(ls[j]).labels[k] = label

(***************************************************************************)
(* C3 (fails on the code).  The lines a scan delivers are those a scan of  *)
(* the same file with one worker delivers.                                 *)
(***************************************************************************)
C3_SameLinesAsOneWorker ==
  outcome = "ok" => delivered = scanFileLines(file, 1)

(***************************************************************************)
(* C9 (fails on the code).  When a call of the callback has returned an    *)
(* error, the scan has stopped with that error returned to the caller of   *)
(* scanFile.                                                               *)
(***************************************************************************)
C9_CallbackErrorReturned ==
  (\E l \in BagToSet(delivered) : CbErr(l)) => outcome = "err"

(***************************************************************************)
(* C10 (fails on the code).  Every row sent to the store is the encoding   *)
(* of a line of the file that is an identifier, followed by the label, and *)
(* the line count of a response counts no line that is no identifier.      *)
(***************************************************************************)
ValidLineKeys ==
  LET ls == TrimmedLines(file)
  IN  {mobile2bytes(ls[j]).bytes \o label : j \in {k \in 1 .. Len(ls) : ValidId(ls[k])}}

C10_NoCoercedIdentifier ==
  LET ls == TrimmedLines(file)
  IN  /\ \A p \in PIDs : \A j \in 1 .. Len(enqLog[p]) :
           enqLog[p][j].key \in ValidLineKeys
      /\ outcome = "ok" =>
           reported <= Cardinality({j \in 1 .. Len(ls) : ValidId(ls[j])})

(***************************************************************************)
(* C11 (fails on the code).  When an I/O call of a load in progress (stat, *)
(* open, seek, read of the file, a write of an engine) has failed, the     *)
(* load has ended with the error returned to its caller and the process    *)
(* is still running.                                                       *)
(***************************************************************************)
LoadIOFailed == ioErr = "stat" \/ (ioErr # "none" /\ outcome = "fatal")

C11_IOFailureReturned ==
  LoadIOFailed => (outcome = "err" /\ proc # "exited")

(***************************************************************************)
(* The store under concurrent loads.  Every load is the stream of its      *)
(* callback's calls s.Append(mobile2bytes(line), label); the calls of all  *)
(* loads interleave with each other, with the partition goroutines, with   *)
(* Close and with the exit of the process.                                 *)
(***************************************************************************)
\* identifiers: "1", "7", "257" and 2^64 - 1
IdTexts == {<<49>>, <<55>>, <<50, 53, 55>>, MaxIdText}

\* labels: "A" and "B"
StoreLabels == {<<65>>, <<66>>}

\* mobile2bytes of every identifier of IdTexts
Encoded == [t \in IdTexts |-> mobile2bytes(t)]

\* the load machine at rest
NoLoad ==
  /\ file = <<>>
  /\ numWorkers = 1
  /\ syncMode = FALSE
  /\ noop = FALSE
  /\ label = <<>>
  /\ pc = "returned"
  /\ idx = 0
  /\ chops = [i \in {0} |-> Chop]
  /\ stitchLine = <<>>
  /\ parts = [i \in {0} |->
                [st |-> "done", total |-> 0, line |-> <<>>, lineStarted |-> FALSE,
                 lines |-> 0]]
  /\ lines = 0
  /\ delivered = EmptyBag
  /\ outcome = "ok"
  /\ reported = 0

InitStore ==
  /\ NoLoad
  /\ Open
  /\ nOps = 0
  /\ pairPc = 0
  /\ pair = NoPair
  /\ prior = NoPrior
  /\ query = NoQuery

\* the callback of a load with label l on the line t
LoadLine(t, l) ==
  /\ proc \in {"serving", "closing"}
  /\ nOps < MaxOps
  /\ LET mobile == Encoded[t]
     IN  /\ mobile.ok
         /\ ~chClosed[Partition(mobile.bytes)]
         /\ CanSend(Partition(mobile.bytes))
         /\ pebbleDBAppend(mobile.bytes, l, <<t, l>>)
  /\ nOps' = nOps + 1
  /\ UNCHANGED <<dbs, chClosed, workerDone, dbOpen, appLog>>
  /\ UNCHANGED <<scanVars, procVars, pairPc, pair, histVars>>

\* the callback of a load with label l on the line t when the channel of the
\* line's partition is closed: the send of pebbleDB.Append panics, whether
\* the channel has room or not.  In a goroutine of scanFile the panic ends
\* the process; in the goroutine of the request (sync mode, and the lines of
\* the stitch pass) net/http recovers it and the process goes on
LoadLinePanic(t, l) ==
  /\ proc \in {"serving", "closing"}
  /\ nOps < MaxOps
  /\ LET mobile == Encoded[t]
     IN  /\ mobile.ok
         /\ chClosed[Partition(mobile.bytes)]
  /\ panicked' = TRUE
  /\ \E recovered \in BOOLEAN : proc' = IF recovered THEN proc ELSE "exited"
  /\ nOps' = nOps + 1
  /\ UNCHANGED <<storeVars, closeVars, ioErr>>
  /\ UNCHANGED <<scanVars, pairPc, pair, histVars>>

\* the goroutine of partition p leaves `for k := range c`: the channel is
\* closed and empty; s.Done()
WorkerExit(p) ==
  /\ proc # "exited"
  /\ ~workerDone[p]
  /\ chClosed[p] /\ dbc[p] = <<>>
  /\ workerDone' = [workerDone EXCEPT ![p] = TRUE]
  /\ UNCHANGED <<dbc, dbs, chClosed, dbOpen, enqLog, appLog>>
  /\ UNCHANGED <<scanVars, procVars, prodVars>>

\* pebbleDB.Close is called
CloseStart ==
  /\ proc = "serving"
  /\ proc' = "closing"
  /\ closePc' = 0
  /\ UNCHANGED <<closeErr, closeRet, ioErr, panicked, scanVars, storeVars, prodVars>>

\* Close's first loop: close(db) of the next channel
CloseChan ==
  /\ proc = "closing"
  /\ closePc < Partitions
  /\ chClosed' = [chClosed EXCEPT ![closePc] = TRUE]
  /\ closePc' = closePc + 1
  /\ UNCHANGED <<dbc, dbs, workerDone, dbOpen, enqLog, appLog, proc, ioErr, panicked>>
  /\ UNCHANGED <<closeErr, closeRet>>
  /\ UNCHANGED <<scanVars, prodVars>>

\* a Close that returns at the first error of a db.Close()
CloseStepFirstError(at, failed) == IF failed THEN 2 * Partitions ELSE at + 1

\* Close's second loop after db.Close() at position at: the error is joined
\* and the loop goes on to the next engine
CloseStep(at, failed) == at + 1

\* Close after s.Wait(): db.Close() of the next engine, which may return an
\* error; err = multierr.Append(err, ...), and the return after the last
CloseEngine ==
  /\ proc = "closing"
  /\ closePc >= Partitions /\ closePc < 2 * Partitions
  /\ \A p \in PIDs : workerDone[p]
  /\ dbOpen' = [dbOpen EXCEPT ![closePc - Partitions] = FALSE]
  /\ \E failed \in BOOLEAN :
       /\ closeErr' = [closeErr EXCEPT ![closePc - Partitions] =
                         IF failed THEN "err" ELSE "ok"]
       /\ closeRet' = IF failed THEN Append(closeRet, closePc - Partitions)
                      ELSE closeRet
       /\ closePc' = CloseStep(closePc, failed)
       /\ proc' = IF CloseStep(closePc, failed) = 2 * Partitions THEN "closed"
                  ELSE proc
  /\ UNCHANGED <<dbc, dbs, chClosed, workerDone, enqLog, appLog, ioErr, panicked>>
  /\ UNCHANGED <<scanVars, prodVars>>

\* main: http.ListenAndServe returns its error and log.Fatal exits the
\* process (os.Exit runs no deferred call, so not the deferred db.Close)
ListenAndServeFatal ==
  /\ proc = "serving"
  /\ proc' = "exited"
  /\ UNCHANGED <<closeVars, ioErr, panicked>>
  /\ UNCHANGED <<scanVars, storeVars, prodVars>>

NextStore ==
  \/ \E t \in IdTexts, l \in StoreLabels : LoadLine(t, l)
  \/ \E t \in IdTexts, l \in StoreLabels : LoadLinePanic(t, l)
  \/ \E p \in PIDs : WorkerApply(p)
  \/ \E p \in PIDs : WorkerExit(p)
  \/ CloseStart
  \/ CloseChan
  \/ CloseEngine
  \/ ListenAndServeFatal

SpecStore == InitStore /\ [][NextStore]_vars

(***************************************************************************)
(* History operators for the claims about the store.                       *)
(***************************************************************************)
IsPrefix(a, b) == Len(a) <= Len(b) /\ SubSeq(b, 1, Len(a)) = a

RECURSIVE FoldOps(_, _)
\* the engine after the ops of q, applied in order to db
FoldOps(db, q) == IF q = <<>> THEN db ELSE FoldOps(ApplyOp(db, Head(q)), Tail(q))

\* the calls (src) whose op was sent on some channel
SentSrcs == UNION {{enqLog[p][j].src : j \in 1 .. Len(enqLog[p])} : p \in PIDs}

\* the calls whose op a partition goroutine has applied
AppliedSrcs == UNION {{appLog[p][j].src : j \in 1 .. Len(appLog[p])} : p \in PIDs}

SeqToSet(q) == {q[j] : j \in 1 .. Len(q)}

PartitionOfText(t) == Partition(Encoded[t].bytes)

\* the ranges that hold byte b (0-based) of the file
RangesOf(b) == {i \in WIDs : RangeStart(i) <= b /\ b < RangeEnd(i)}

\* every scanFilePart has run to the end of its range
AllPartsRead ==
  \A i \in WIDs : parts[i].st = "done" /\ parts[i].total = countBytes(i)

(***************************************************************************)
(* C16 (fails on the code).  When every range has been scanned, the ranges *)
(* were contiguous from byte 0 to the end of the file, the last one ending *)
(* at EOF, and every byte of the file was in exactly one range.            *)
(***************************************************************************)
C16_RangesCoverFile ==
  AllPartsRead =>
    /\ RangeStart(0) = 0
    /\ \A i \in WIDs \ {0} : RangeStart(i) = RangeEnd(i - 1)
    /\ RangeEnd(numWorkers - 1) = fileSize
    /\ \A b \in 0 .. fileSize - 1 : Cardinality(RangesOf(b)) = 1

(***************************************************************************)
(* C17 (fails on the code).  Every line the callback is called with is a   *)
(* line of the file with its leading and trailing white space removed and  *)
(* the bytes in between unchanged.  Stated for the files whose size is a   *)
(* multiple of the worker count, where the ranges cover the whole file.    *)
(***************************************************************************)
C17_OnlySurroundingTrimmed ==
  fileSize % numWorkers = 0 =>
    \A l \in BagToSet(delivered) : l \in SeqToSet(TrimmedLines(file))

\* the bytes of range i read so far
BytesRead(i) == SubSeq(file, RangeStart(i) + 1, RangeStart(i) + parts[i].total)

(***************************************************************************)
(* C18.  The callback is never called with an empty line nor with a line   *)
(* of white space only; the load of an empty file calls it never and       *)
(* reports 0 lines; a range in which no terminator has been read has       *)
(* called the callback never, and all it hands to the stitch loop is its   *)
(* head, the bytes read that are no white space, with an empty tail.       *)
(***************************************************************************)
C18_NoEmptyLine ==
  /\ \A l \in BagToSet(delivered) : TrimSpace(l) # <<>>
  /\ fileSize = 0 => (delivered = EmptyBag /\ lines = 0 /\ reported = 0)
  /\ \A i \in WIDs :
       LF \notin SeqToSet(BytesRead(i)) =>
         /\ parts[i].lines = 0
         /\ ~chops[i].linebreak
         /\ parts[i].line = <<>> /\ chops[i].tail = <<>>
         /\ chops[i].head = Squeeze(BytesRead(i))

\* a load of a file with a line of white space only has ended with its
\* response and has delivered a line; one of its ranges held bytes of a
\* line and no terminator
C18_Witness ==
  /\ outcome = "ok" /\ delivered # EmptyBag
  /\ \E j \in 1 .. Len(SplitLF(file, <<>>)) :
       SplitLF(file, <<>>)[j] # <<>> /\ TrimSpace(SplitLF(file, <<>>)[j]) = <<>>
  /\ \E i \in WIDs :
       /\ parts[i].total > 0 /\ parts[i].lines = 0
       /\ ~chops[i].linebreak /\ chops[i].head # <<>>

\* the stitch loop has begun (and, with pc returned, has ended)
StitchBegun == pc = "stitch" \/ (pc = "returned" /\ outcome = "ok")

(***************************************************************************)
(* C20.  Once the stitch loop has begun, every scanFilePart has returned:  *)
(* none can read a byte, call the callback or write its tail any more, and *)
(* no step changes a Chop or the state of a scanFilePart; the only calls   *)
(* of the callback are those of the stitch loop.                           *)
(***************************************************************************)
C20_StitchAfterJoin ==
  /\ [](StitchBegun =>
          \A i \in WIDs :
            /\ parts[i].st = "done"
            /\ ~ENABLED ScanByte(i)
            /\ ~ENABLED ScanPartEnd(i))
  /\ [][StitchBegun =>
          /\ chops' = chops
          /\ parts' = parts
          /\ delivered' # delivered => (Stitch \/ StitchLast)]_vars

\* the stitch loop of a parallel scan with two or more ranges has begun:
\* goroutines have delivered lines and have written a head and a tail
C20_Witness ==
  /\ pc = "stitch" /\ ~syncMode /\ numWorkers >= 2
  /\ delivered # EmptyBag
  /\ \E i \in WIDs : chops[i].head # <<>>
  /\ \E i \in WIDs : chops[i].tail # <<>>

\* the bytes of the file that lie in a range, in the order of the ranges:
\* the ranges are adjacent from byte 0 on, workerSize bytes each
CoveredBytes == SubSeq(file, 1, numWorkers * WorkerSizeOf(fileSize, numWorkers))

(***************************************************************************)
(* C24.  When a load ends with the response, the lines the callback was    *)
(* called with, by the scanFilePart calls and by the stitch loop together, *)
(* are as a bag exactly the non-empty segments between line breaks of the  *)
(* bytes the ranges cover, each without its white space bytes and each     *)
(* once, wherever the range boundaries fall.                               *)
(***************************************************************************)
C24_CoveredLinesExact ==
  outcome = "ok" => delivered = BagOfSeq(SqueezedLines(CoveredBytes))

\* a load of several ranges has ended: one line was delivered by a
\* scanFilePart, another was joined by the stitch loop from the tail of a
\* range and the head of the next, and the ranges leave bytes uncovered
C24_Witness ==
  /\ outcome = "ok"
  /\ numWorkers > 1
  /\ Len(CoveredBytes) < fileSize
  /\ \E i \in WIDs : parts[i].lines > 0
  /\ \E i \in WIDs \ {0} : chops[i - 1].tail # <<>> /\ chops[i].head # <<>>

(***************************************************************************)
(* The load machine under the scheduler of the Go runtime: a goroutine     *)
(* that can take a step is not held back for ever.  This holds for the     *)
(* goroutine of every partition, for scanFile and for every scanFilePart;  *)
(* a failure of the file system or of an engine is never bound to happen.  *)
(***************************************************************************)
Fairness ==
  /\ \A p \in PIDs : WF_vars(WorkerApply(p))
  /\ WF_vars(ScanFileLoop)
  /\ \A i \in 0 .. (MaxWorkers - 1) : WF_vars(i \in WIDs /\ ScanByte(i))
  /\ \A i \in 0 .. (MaxWorkers - 1) : WF_vars(i \in WIDs /\ ScanPartEnd(i))
  /\ WF_vars(Wait)
  /\ WF_vars(Stitch)
  /\ WF_vars(StitchLast)

\* the files of the fair loads: " 1\n1\n1 " (three lines for one channel,
\* more than it holds), "1\nx\n" (a line that is no identifier after one
\* that is), "\n1 1\n" and "1\n1 1\nx1"
FairFiles ==
  {<<32, 49, LF, 49, LF, 49, 32>>, <<49, LF, 120, LF>>, <<LF, 49, 32, 49, LF>>,
   <<49, LF, 49, 32, 49, LF, 120, 49>>}

InitFair == Init /\ file \in FairFiles

FairSpec == InitFair /\ [][Next]_vars /\ Fairness

\* the identifiers of the load have its label: GetLabel of every line the
\* callback was called with answers with the label of the load
LoadQueryable ==
  \A l \in BagToSet(delivered) :
    /\ GetLabel(l).ok
    /\ label \in SeqToSet(GetLabel(l).labels)

(***************************************************************************)
(* C22.  While the process runs and the goroutine of a partition keeps     *)
(* being scheduled, every op sent on the partition's channel is applied    *)
(* to its engine, once and in the order of the sends: the ops applied are  *)
(* always a prefix of the ops sent, and the k-th op sent is eventually     *)
(* applied.  So a load that has returned its response eventually has       *)
(* every identifier answered with its label, not always at once; and a     *)
(* load does not stay blocked on a full channel: it comes to its end.      *)
(***************************************************************************)
C22_EventuallyApplied ==
  /\ [](\A p \in PIDs : IsPrefix(appLog[p], enqLog[p]))
  /\ \A p \in PIDs : \A k \in 1 .. (QueueCap + 1) :
       (Len(enqLog[p]) >= k) ~> (Len(appLog[p]) >= k \/ proc = "exited")
  /\ (outcome = "ok" /\ ~noop) ~> (LoadQueryable \/ proc = "exited")
  /\ (outcome = "running") ~> (outcome # "running")

\* a load has returned its response after it sent more ops on one channel
\* than the channel holds, and every op is applied
C22_Witness ==
  /\ outcome = "ok"
  /\ \E p \in PIDs : Len(enqLog[p]) > QueueCap
  /\ \A p \in PIDs : appLog[p] = enqLog[p]
  /\ delivered # EmptyBag /\ LoadQueryable

\* no op was ever sent and no engine holds a row
StoreUntouched ==
  \A p \in PIDs : enqLog[p] = <<>> /\ dbc[p] = <<>> /\ dbs[p] = <<>>

(***************************************************************************)
(* C21 (fails on the code).  A load with noop sends no op and leaves every *)
(* engine as it was; when it ends with its response, every line it         *)
(* counted was encoded as an identifier, so that the count is the one a    *)
(* writing load of the same file reports.                                  *)
(***************************************************************************)
C21_NoopSameCount ==
  noop =>
    /\ StoreUntouched
    /\ outcome = "ok" =>
         /\ \A l \in BagToSet(delivered) : ValidId(l)
         /\ reported = BagCardinality(delivered)

(***************************************************************************)
(* A second load of the same file with the same label.  The second         *)
(* request starts when the first has returned, while ops of the first may  *)
(* still be in the channels; each request has its own ?sync.               *)
(***************************************************************************)
\* "1\n7", "1\n1\n", "7 \n1", "1\nx\n", "17\n71\n7", "1\n7\n1\n" and the empty
\* file
ReloadFiles ==
  {<<49, LF, 55>>, <<49, LF, 49, LF>>, <<55, 32, LF, 49>>, <<49, LF, 120, LF>>,
   <<49, 55, LF, 55, 49, LF, 55>>, <<49, LF, 55, LF, 49, LF>>, <<>>}

InitReload ==
  /\ file \in ReloadFiles
  /\ numWorkers \in 1 .. MaxWorkers
  /\ syncMode \in BOOLEAN
  /\ noop \in BOOLEAN
  /\ label \in LoadLabels
  /\ pc = "loop"
  /\ idx = 0
  /\ chops = [i \in WIDs |-> Chop]
  /\ stitchLine = <<>>
  /\ parts = [i \in WIDs |->
                [st |-> "new", total |-> 0, line |-> <<>>, lineStarted |-> FALSE,
                 lines |-> 0]]
  /\ lines = 0
  /\ delivered = EmptyBag
  /\ outcome = "running"
  /\ reported = 0
  /\ Open
  /\ nOps = 0
  /\ pairPc = 0
  /\ pair = NoPair
  /\ prior = NoPrior
  /\ query = NoQuery

\* LoadFile is called again with the same file and label, after the first
\* call has returned
LoadAgain ==
  /\ proc = "serving"
  /\ pc = "returned" /\ outcome \in {"ok", "err"}
  /\ prior.n = 0
  /\ prior' = [n |-> 1, outcome |-> outcome, sent |-> enqLog]
  /\ syncMode' \in BOOLEAN
  /\ pc' = "loop"
  /\ idx' = 0
  /\ chops' = [i \in WIDs |-> Chop]
  /\ stitchLine' = <<>>
  /\ parts' = [i \in WIDs |->
                 [st |-> "new", total |-> 0, line |-> <<>>, lineStarted |-> FALSE,
                 lines |-> 0]]
  /\ lines' = 0
  /\ delivered' = EmptyBag
  /\ outcome' = "running"
  /\ reported' = 0
  /\ UNCHANGED <<file, numWorkers, noop, label>>
  /\ UNCHANGED <<storeVars, procVars, nOps, pairPc, pair, query>>

NextReload ==
  \/ Next
  \/ LoadAgain

SpecReload == InitReload /\ [][NextReload]_vars

\* the engines once exactly the ops of q (per partition) are applied
EnginesAfter(q) == [p \in PIDs |-> FoldOps(<<>>, q[p])]

\* the texts queried: the lines of the file as trimmed and as delivered, and
\* "1", "7", "11", "17", "71"
QueryTexts ==
  SeqToSet(TrimmedLines(file)) \cup SeqToSet(SqueezedLines(file))
    \cup {<<49>>, <<55>>, <<49, 49>>, <<49, 55>>, <<55, 49>>}

\* both loads have returned their response and their ops are applied
TwoLoadsApplied ==
  /\ proc = "serving"
  /\ prior.n = 1 /\ prior.outcome = "ok"
  /\ outcome = "ok"
  /\ Drained

(***************************************************************************)
(* C13.  When a file has been loaded twice with the same label and the ops *)
(* of both loads are applied, every engine holds what it holds once        *)
(* exactly the ops of the first load are applied, and every query returns  *)
(* the same labels.                                                        *)
(***************************************************************************)
C13_ReloadIdempotent ==
  TwoLoadsApplied =>
    /\ dbs = EnginesAfter(prior.sent)
    /\ \A t \in QueryTexts :
         LET m == mobile2bytes(t)
         IN  m.ok =>
               FindLabelsByMobile(m.bytes)
                 = ScanLabels(EnginesAfter(prior.sent)[Partition(m.bytes)], m.bytes)

\* both loads of a file with two identifier lines are applied: some row was
\* sent twice, and the query of "1" returns the label once
C13_Witness ==
  /\ TwoLoadsApplied
  /\ ~noop
  /\ \E p \in PIDs : \E i, j \in 1 .. Len(appLog[p]) :
       i < j /\ appLog[p][i].key = appLog[p][j].key
  /\ FindLabelsByMobile(mobile2bytes(<<49>>).bytes) = <<label>>

(***************************************************************************)
(* C4.  The labels a query of an identifier returns were all loaded for    *)
(* that identifier: no row of another identifier is in the prefix range of *)
(* its 8-byte encoding, whatever was loaded, sent or applied so far.       *)
(***************************************************************************)
C4_PrefixIsolation ==
  \A t \in IdTexts :
    \A l \in SeqToSet(GetLabel(t).labels) : <<t, l>> \in SentSrcs

\* "257" has label "A" applied, "1" (same partition, same first byte of the
\* encoding) has no label loaded, and the query of "1" returns nothing
C4_Witness ==
  /\ PartitionOfText(<<49>>) = PartitionOfText(<<50, 53, 55>>)
  /\ <<<<50, 53, 55>>, <<65>>>> \in AppliedSrcs
  /\ \A l \in StoreLabels : <<<<49>>, l>> \notin SentSrcs
  /\ GetLabel(<<49>>).labels = <<>>
  /\ GetLabel(<<50, 53, 55>>).labels = <<<<65>>>>

(***************************************************************************)
(* C5.  While the engine of its partition is open, a query of an           *)
(* identifier succeeds and returns exactly the labels whose row for the    *)
(* identifier has been applied, each once, in strictly ascending byte      *)
(* order; with no row applied it returns the empty list.                   *)
(***************************************************************************)
C5_LabelsExactAscending ==
  \A t \in IdTexts :
    LET r == GetLabel(t)
        applied == {l \in StoreLabels : <<t, l>> \in AppliedSrcs}
    IN  dbOpen[PartitionOfText(t)] =>
        /\ r.ok
        /\ SeqToSet(r.labels) = applied
        /\ Len(r.labels) = Cardinality(applied)
        /\ \A j \in 1 .. Len(r.labels) - 1 : Less(r.labels[j], r.labels[j + 1])

\* "B" then "A" were applied for 2^64 - 1 (whose prefix range has no upper
\* bound) and the query answers "A", "B"; the query of "7", with nothing
\* applied, succeeds with the empty list
C5_Witness ==
  LET p == PartitionOfText(MaxIdText)
  IN  /\ \E i, j \in 1 .. Len(appLog[p]) :
           /\ i < j
           /\ appLog[p][i].src = <<MaxIdText, <<66>>>>
           /\ appLog[p][j].src = <<MaxIdText, <<65>>>>
      /\ GetLabel(MaxIdText).labels = <<<<65>>, <<66>>>>
      /\ GetLabel(<<55>>).labels = <<>>
      /\ GetLabel(<<55>>).ok

(***************************************************************************)
(* C6.  In every partition the ops applied so far are a prefix of the ops  *)
(* sent on its channel, in the order of the sends, the channel holds the   *)
(* rest in that order, and the engine is the result of applying that       *)
(* prefix in order: a read sees the writes of a prefix, never two writes   *)
(* of a partition in reversed order.                                       *)
(***************************************************************************)
C6_FifoPerPartition ==
  \A p \in PIDs :
    /\ IsPrefix(appLog[p], enqLog[p])
    /\ enqLog[p] = appLog[p] \o dbc[p]
    /\ dbs[p] = FoldOps(<<>>, appLog[p])

\* a partition with two different rows sent, the first applied and readable,
\* the second still in the channel
C6_Witness ==
  \E p \in PIDs :
    /\ Len(enqLog[p]) >= 2
    /\ Len(appLog[p]) = 1
    /\ enqLog[p][1].key # enqLog[p][2].key
    /\ DOMAIN dbs[p] = {enqLog[p][1].key}

(***************************************************************************)
(* C12.  The channel of a partition never holds more ops than its          *)
(* capacity; a callback's send completes exactly when the channel has      *)
(* room, and is blocked while it is full, until the goroutine takes an op; *)
(* every op sent is applied or still in the channel, none is dropped.      *)
(***************************************************************************)
C12_BoundedQueue ==
  /\ \A p \in PIDs :
       /\ Len(dbc[p]) <= QueueCap
       /\ Len(enqLog[p]) = Len(appLog[p]) + Len(dbc[p])
       /\ \A j \in 1 .. Len(dbc[p]) : dbc[p][j] = enqLog[p][Len(appLog[p]) + j]
  /\ \A t \in IdTexts, l \in StoreLabels :
       (proc \in {"serving", "closing"} /\ nOps < MaxOps
          /\ ~chClosed[PartitionOfText(t)])
         => (ENABLED LoadLine(t, l) <=> Len(dbc[PartitionOfText(t)]) < QueueCap)

\* the channel of a partition is full, a callback with a line of that
\* partition is blocked, and the goroutine can take an op
C12_Witness ==
  \E t \in IdTexts, l \in StoreLabels :
    /\ proc = "serving" /\ nOps < MaxOps
    /\ Len(dbc[PartitionOfText(t)]) = QueueCap
    /\ ~ENABLED LoadLine(t, l)
    /\ ENABLED WorkerApply(PartitionOfText(t))

(***************************************************************************)
(* C14.  Close calls db.Close() of an engine only when every partition     *)
(* goroutine has applied all ops sent and has returned, and waits until    *)
(* then; when Close has returned, db.Close() was called on every engine,   *)
(* also after one that returned an error, and the error Close returned     *)
(* joins the errors of exactly the engines whose db.Close() failed.        *)
(***************************************************************************)
C14_CloseWaitsAndAggregates ==
  /\ (\E p \in PIDs : closeErr[p] # "none") =>
       \A q \in PIDs : workerDone[q] /\ dbc[q] = <<>> /\ appLog[q] = enqLog[q]
  /\ (proc = "closing" /\ \E q \in PIDs : ~workerDone[q]) => ~ENABLED CloseEngine
  /\ proc = "closed" =>
       /\ \A p \in PIDs : closeErr[p] # "none" /\ ~dbOpen[p]
       /\ SeqToSet(closeRet) = {p \in PIDs : closeErr[p] = "err"}
       /\ Len(closeRet) = Cardinality({p \in PIDs : closeErr[p] = "err"})

\* Close has returned: ops were applied, db.Close() of the first engine
\* failed, the engines after it were closed all the same, and the error
\* returned is that of the first engine
C14_Witness ==
  /\ proc = "closed"
  /\ \E p \in PIDs : Len(appLog[p]) > 0
  /\ closeErr[0] = "err"
  /\ \A p \in PIDs \ {0} : closeErr[p] = "ok"
  /\ closeRet = <<0>>

(***************************************************************************)
(* C15.  The partition of a byte string is its hash modulo the partition   *)
(* count, an index of a partition.  A load sends the row of (identifier,   *)
(* label) to the partition of the identifier's 8-byte encoding, the        *)
(* partition a query of the identifier scans: the row is sent on no other  *)
(* channel, applied to no other engine, and once applied the query         *)
(* returns the label while the engine is open.                             *)
(***************************************************************************)
C15_RoutingConsistent ==
  \A t \in IdTexts :
    LET mobile == Encoded[t].bytes
        home == Partition(mobile)
    IN  /\ home = Hash(mobile) % Partitions
        /\ home \in PIDs
        /\ \A p \in PIDs : \A j \in 1 .. Len(enqLog[p]) :
             (enqLog[p][j].src[1] = t) =>
               /\ p = home
               /\ enqLog[p][j].key = mobile \o enqLog[p][j].src[2]
        /\ \A p \in PIDs \ {home} : \A k \in DOMAIN dbs[p] : ~IsPrefix(mobile, k)
        /\ \A l \in StoreLabels :
             (<<t, l>> \in AppliedSrcs /\ dbOpen[home]) =>
               l \in SeqToSet(FindLabelsByMobile(mobile))

\* a row is applied whose own bytes hash to another partition than the
\* encoding of its identifier does, and the query of the identifier returns
\* its label; a row of another partition is applied too
C15_Witness ==
  \E t \in IdTexts, l \in StoreLabels :
    /\ <<t, l>> \in AppliedSrcs
    /\ Partition(Encoded[t].bytes \o l) # PartitionOfText(t)
    /\ l \in SeqToSet(GetLabel(t).labels)
    /\ \E u \in IdTexts, m \in StoreLabels :
         PartitionOfText(u) # PartitionOfText(t) /\ <<u, m>> \in AppliedSrcs

(***************************************************************************)
(* C8 (fails on the code).  Once the process has stopped serving for good  *)
(* (Close returned, or the process exited), and whenever an engine is      *)
(* closed, every op sent on a channel has been applied.                    *)
(***************************************************************************)
C8_ShutdownDrains ==
  \A p \in PIDs :
    (proc \in {"closed", "exited"} \/ ~dbOpen[p]) => appLog[p] = enqLog[p]

(***************************************************************************)
(* C23 (fails on the code).  No call of Append or Set, of a load in        *)
(* progress or of any other caller, that races with Close or follows it    *)
(* sends on a channel Close has closed: no send panics.                    *)
(***************************************************************************)
C23_NoSendOnClosed == ~panicked

(***************************************************************************)
(* The methods Set and Append under concurrent callers.  One producer      *)
(* calls Set(key, v1) and then Append(key, v2); the other producers call   *)
(* Set and Append with arguments that do not write the row key.            *)
(***************************************************************************)
OpKeys == {<<1>>, <<3>>, <<1, 2>>}

OpValues == {<<>>, <<2>>}

\* the values of the producer's Set
SetValues == {<<2>>, <<5>>}

InitOps ==
  /\ NoLoad
  /\ Open
  /\ nOps = 0
  /\ pairPc = 0
  /\ pair \in [key : OpKeys, v1 : SetValues, v2 : OpValues]
  /\ prior = NoPrior
  /\ query = NoQuery

\* the producer's s.Set(key, v1)
PairSet ==
  /\ proc = "serving"
  /\ pairPc = 0
  /\ CanSend(Partition(pair.key))
  /\ pebbleDBSet(pair.key, pair.v1, "pairSet")
  /\ pairPc' = 1
  /\ UNCHANGED <<dbs, chClosed, workerDone, dbOpen, appLog>>
  /\ UNCHANGED <<scanVars, procVars, nOps, pair, histVars>>

\* the producer's s.Append(key, v2), after its Set has returned
PairAppend ==
  /\ proc = "serving"
  /\ pairPc = 1
  /\ CanSend(Partition(pair.key))
  /\ pebbleDBAppend(pair.key, pair.v2, "pairAppend")
  /\ pairPc' = 2
  /\ UNCHANGED <<dbs, chClosed, workerDone, dbOpen, appLog>>
  /\ UNCHANGED <<scanVars, procVars, nOps, pair, histVars>>

\* another producer's s.Set(k, v)
OtherSet(k, v) ==
  /\ proc = "serving"
  /\ nOps < MaxOps
  /\ k # pair.key
  /\ CanSend(Partition(k))
  /\ pebbleDBSet(k, v, "other")
  /\ nOps' = nOps + 1
  /\ UNCHANGED <<dbs, chClosed, workerDone, dbOpen, appLog>>
  /\ UNCHANGED <<scanVars, procVars, pairPc, pair, histVars>>

\* another producer's s.Append(k, v)
OtherAppend(k, v) ==
  /\ proc = "serving"
  /\ nOps < MaxOps
  /\ k \o v # pair.key
  /\ CanSend(Partition(k))
  /\ pebbleDBAppend(k, v, "other")
  /\ nOps' = nOps + 1
  /\ UNCHANGED <<dbs, chClosed, workerDone, dbOpen, appLog>>
  /\ UNCHANGED <<scanVars, procVars, pairPc, pair, histVars>>

NextOps ==
  \/ PairSet
  \/ PairAppend
  \/ \E k \in OpKeys, v \in OpValues : OtherSet(k, v)
  \/ \E k \in OpKeys, v \in OpValues : OtherAppend(k, v)
  \/ \E p \in PIDs : WorkerApply(p)

SpecOps == InitOps /\ [][NextOps]_vars

\* the producer's two ops are applied
PairApplied == {"pairSet", "pairAppend"} \subseteq AppliedSrcs

\* s occurs in t as a run of consecutive bytes
Contains(t, s) == \E j \in 0 .. Len(t) - Len(s) : SubSeq(t, j + 1, j + Len(s)) = s

ScanKeys ==
  {<<1>>, <<3>>, <<1, 254>>, <<1, 255>>, <<1, 255, 2>>, <<2>>, <<255>>,
   <<255, 254>>, <<255, 255>>, <<255, 255, 2>>}

\* prefixes: without a trailing 255, with one, and of 255 only
ScanPrefixes == {<<1>>, <<3>>, <<1, 255>>, <<255>>, <<255, 255>>}

InitPrefix ==
  /\ NoLoad
  /\ Open
  /\ nOps = 0
  /\ pairPc = 0
  /\ pair = NoPair
  /\ prior = NoPrior
  /\ query = NoQuery

\* s.Set(k, empty)
ScanSet(k) ==
  /\ proc = "serving"
  /\ nOps < MaxOps
  /\ CanSend(Partition(k))
  /\ pebbleDBSet(k, <<>>, "set")
  /\ nOps' = nOps + 1
  /\ UNCHANGED <<dbs, chClosed, workerDone, dbOpen, appLog>>
  /\ UNCHANGED <<scanVars, procVars, pairPc, pair, histVars>>

\* FindLabelsByMobile(prefix): the iterator over the engine of the prefix's
\* partition, and the labels it returns
PrefixScan(prefix) ==
  /\ proc = "serving"
  /\ query' = [prefix |-> prefix,
               found |-> IterKeys(dbs[Partition(prefix)], prefix),
               labels |-> FindLabelsByMobile(prefix),
               present |-> DOMAIN dbs[Partition(prefix)]]
  /\ UNCHANGED <<scanVars, storeVars, procVars, nOps, pairPc, pair, prior>>

NextPrefix ==
  \/ \E k \in ScanKeys : ScanSet(k)
  \/ \E p \in PIDs : WorkerApply(p)
  \/ \E prefix \in ScanPrefixes : PrefixScan(prefix)

SpecPrefix == InitPrefix /\ [][NextPrefix]_vars

RECURSIVE DropTrailingMax(_)
\* b without its trailing bytes of value 255
DropTrailingMax(b) ==
  IF b # <<>> /\ b[Len(b)] = 255 THEN DropTrailingMax(SubSeq(b, 1, Len(b) - 1)) ELSE b

\* b plus one as a big-endian integer, the carry running through the
\* trailing 255 bytes, which fall away; not bounded when b is 255 only
Successor(b) ==
  LET r == DropTrailingMax(b)
  IN  IF r = <<>> THEN [bounded |-> FALSE, key |-> <<>>]
      ELSE [bounded |-> TRUE, key |-> [r EXCEPT ![Len(r)] = @ + 1]]

(***************************************************************************)
(* C19.  A prefix scan visits, in ascending order, exactly the keys of the *)
(* engine that begin with the prefix; its upper bound is the prefix plus   *)
(* one as a big-endian integer with the carry through the trailing 255     *)
(* bytes, and none when the prefix is 255 only.                            *)
(***************************************************************************)
C19_PrefixRangeExact ==
  query # NoQuery =>
    /\ SeqToSet(query.found) = {k \in query.present : IsPrefix(query.prefix, k)}
    /\ \A j \in 1 .. Len(query.found) - 1 : Less(query.found[j], query.found[j + 1])
    /\ Len(query.labels) = Len(query.found)
    /\ \A j \in 1 .. Len(query.found) :
         query.prefix \o query.labels[j] = query.found[j]
    /\ keyUpperBound(query.prefix) = Successor(query.prefix)

\* a scan of a prefix that ends in 255 (or is 255 only) found a key longer
\* than the prefix, while the engine held a key above the range or below it
C19_Witness ==
  /\ query.prefix \in {<<1, 255>>, <<255, 255>>}
  /\ \E k \in SeqToSet(query.found) : Len(k) > Len(query.prefix)
  /\ \E k \in query.present : ~IsPrefix(query.prefix, k)

=============================================================================
